---- MODULE Spec2Model ----
(***************************************************************************)
(* Model of the sharded-storage connection layer:                          *)
(*   store/postgres/src/connection_pool.rs  (ConnectionPool, setup)         *)
(*   node/src/store_builder.rs              (StoreBuilder)                  *)
(*                                                                         *)
(* A "call" is one invocation of ConnectionPool::with_conn.  SpecPool has  *)
(* several callers sharing one pool and running arbitrary closures;        *)
(* SpecSetup has one call per process, each running the closure of         *)
(* ConnectionPool::setup against a shard database, the processes sharing   *)
(* only the advisory locks of that database.  SpecLeader follows the       *)
(* leader passes on one database: foreign servers, migration run and       *)
(* primary_public.  SpecBuilder follows StoreBuilder::new over all shards, *)
(* SpecReplicas one replica_pools call, SpecNetworks the chain map and     *)
(* network_store, SpecRetry(Fair) get_with_timeout_warning.                *)
(***************************************************************************)
EXTENDS Integers, FiniteSets, Sequences, TLC

\* ---------------------------------------------------------------- bounds
MaxCallers == 3    \* concurrent with_conn callers of one pool (SpecPool)
MaxProcs == 2      \* processes racing setup (SpecSetup)
MaxPoolSize == 2   \* largest pool_size tried
MaxShards == 2     \* shard databases
MaxReplicas == 2   \* replicas of one shard (SpecReplicas)
MaxWeight == 2     \* largest routing weight tried
MaxNetworks == 2   \* network names, and networks given to network_store
MaxGetters == 3    \* concurrent get_with_timeout_warning calls (SpecRetry)
MaxPasses == 2     \* leader passes on one database (SpecLeader)

Shards == 1..MaxShards
NoSession == 0     \* an advisory lock nobody holds

VARIABLES
    callers,      \* the with_conn calls of the run
    poolOf,       \* call -> the ConnectionPool it is made on
    shardOf,      \* call -> the shard database its pool connects to
    pool_size,    \* ConnectionPool::create's pool_size
    permits,      \* pool -> permits available in `limiter`
    idle,         \* pool -> connections `pool` can still hand out
    fut,          \* call -> state of the with_conn future
    task,         \* call -> position of the blocking task
    conn,         \* call -> the task's `conn`
    cancelled,    \* call -> cancel_handle is signalled
    closureRet,   \* call -> what `f` returned ("none": never invoked)
    taskResult,   \* call -> what the blocking task produced
    lock1,        \* shard -> session holding advisory lock 1
    lock2,        \* shard -> session holding advisory lock 2
    sp,           \* call -> position inside setup's closure
    migrate,      \* call -> `lock.migrate`: "unknown" before the query, then
                  \*         "true" or "false"
    sawLeader,    \* call -> holder of lock 1 when try-lock(1) was evaluated
    result,       \* call -> setup's `result`
    failed,       \* call -> the leader step whose operation failed
    steps,        \* call -> the leader steps its closure has executed, in order
    cancelAt,     \* call -> where its task stood when the caller was abandoned
    \* StoreBuilder::new / network_store (SpecBuilder)
    urls,         \* shard -> what the main connection string of the shard has
    replicaUrls,  \* shard -> what the connection string of its replica has
    builder,      \* position of StoreBuilder::new, then network_store
    abortedAt,    \* the position at which StoreBuilder::new panicked
    setupOf,      \* shard -> state of `pool.setup(details)` inside join_all
    \* StoreBuilder::replica_pools (SpecReplicas)
    replicas,     \* shard.replicas.values(): the weight of each replica
    shardWeight,  \* shard.weight
    ri,           \* how many replicas the iterator has yielded
    replPools,    \* the pools collected so far
    weights,      \* `weights`
    rpc,          \* position of replica_pools
    \* StoreBuilder::new's `chains` and network_store (SpecNetworks)
    configChains, \* config.chains.chains: network name -> shard
    chains,       \* StoreBuilder.chains
    networks,     \* network_store's `networks` argument
    triples,      \* the (name, ident, shard) triples collected so far
    npc,          \* position of new, then network_store
    \* ConnectionPool::get_with_timeout_warning (SpecRetry)
    gpc,          \* getter -> position in get_with_timeout_warning
    attempt,      \* getter -> what its last get_timeout produced
    retried,      \* getter -> one of its attempts has failed
    gret,         \* getter -> what get_with_timeout_warning returned
    free,         \* connections the pool can still hand out
    \* the leader passes on the database of one shard (SpecLeader)
    ldb,          \* the shard whose database is followed
    registered,   \* names of the foreign servers the database has
    current,      \* `current_servers` of the running configure_fdw
    tx,           \* the servers as the open transaction sees them
    todo,         \* shards whose server the loop has yet to reach
    ops,          \* server name -> what this pass tried on it
    creates,      \* server name -> committed `create`s so far
    okFdw,        \* configure_fdw calls that committed so far
    later,        \* the pass started after a configure_fdw had committed
    primaryPublic, \* mapped tables the primary has in its schema public
    mapped,       \* the objects of the local schema primary_public
    lp,           \* position of the leader inside its pass
    lresult,      \* `result` of the pass
    lpass,        \* passes started so far
    migrationRun, \* the pass's migration run: <<result, printed output>>
    statsReset,   \* pg_stat_statements_reset() of the pass: "no", "failed"
                  \* or "done"
    remapped,     \* map_primary of the pass: "no", "failed" or "done"
    mapsOk        \* map_primary calls that committed so far

vars == <<callers, poolOf, shardOf, pool_size, permits, idle, fut, task, conn,
          cancelled, closureRet, taskResult, lock1, lock2, sp, migrate,
          sawLeader, result, failed, steps, cancelAt,
          urls, replicaUrls, builder, abortedAt, setupOf,
          replicas, shardWeight, ri, replPools, weights, rpc,
          configChains, chains, networks, triples, npc,
          gpc, attempt, retried, gret, free,
          ldb, registered, current, tx, todo, ops, creates, okFdw, later,
          primaryPublic, mapped, lp, lresult, lpass, migrationRun, statsReset,
          remapped,
          mapsOk>>

builderVars == <<urls, replicaUrls, builder, abortedAt, setupOf>>
replicaVars == <<replicas, shardWeight, ri, replPools, weights, rpc>>
networkVars == <<configChains, chains, networks, triples, npc>>
retryVars == <<gpc, attempt, retried, gret, free>>
fdwVars == <<registered, current, tx, todo, ops, creates, okFdw, later>>
mapVars == <<primaryPublic, mapped, remapped, mapsOk>>
leaderVars == <<ldb, fdwVars, mapVars, lp, lresult, lpass, migrationRun,
                statsReset>>

\* the variables of the specifications that make no with_conn call
extVars == <<builderVars, replicaVars, networkVars, retryVars, leaderVars>>

confVars == <<callers, poolOf, shardOf, pool_size, extVars>>
poolVars == <<confVars, cancelAt>>
setupVars == <<lock1, lock2, sp, migrate, sawLeader, result, failed, steps>>

callVars == <<callers, poolOf, shardOf, pool_size, permits, idle, fut, task,
              conn, cancelled, closureRet, taskResult, setupVars, cancelAt>>

Outcomes == {"Ok", "Err", "Cancel", "Panic"}

\* no StoreBuilder is followed
BuilderUnused ==
    /\ urls = <<>>
    /\ replicaUrls = <<>>
    /\ builder = "unused"
    /\ abortedAt = "none"
    /\ setupOf = <<>>

\* no replica_pools call is followed
ReplicasUnused ==
    /\ replicas = <<>>
    /\ shardWeight = 0
    /\ ri = 0
    /\ replPools = <<>>
    /\ weights = <<>>
    /\ rpc = "unused"

\* no network_store call is followed
NetworksUnused ==
    /\ configChains = <<>>
    /\ chains = <<>>
    /\ networks = <<>>
    /\ triples = <<>>
    /\ npc = "unused"

\* no get_with_timeout_warning call is followed
RetryUnused ==
    /\ gpc = <<>>
    /\ attempt = <<>>
    /\ retried = <<>>
    /\ gret = <<>>
    /\ free = 0

\* no leader pass is followed
LeaderUnused ==
    /\ ldb = 0
    /\ registered = {}
    /\ current = {}
    /\ tx = {}
    /\ todo = {}
    /\ ops = <<>>
    /\ creates = <<>>
    /\ okFdw = 0
    /\ later = FALSE
    /\ primaryPublic = {}
    /\ mapped = {}
    /\ lp = "unused"
    /\ lresult = "Ok"
    /\ lpass = 0
    /\ migrationRun = <<"none", FALSE>>
    /\ statsReset = "no"
    /\ remapped = "no"
    /\ mapsOk = 0

ExtUnused ==
    /\ BuilderUnused
    /\ ReplicasUnused
    /\ NetworksUnused
    /\ RetryUnused
    /\ LeaderUnused

notBuilderVars == <<callVars, replicaVars, networkVars, retryVars, leaderVars>>
notReplicaVars == <<callVars, builderVars, networkVars, retryVars, leaderVars>>
notNetworkVars == <<callVars, builderVars, replicaVars, retryVars, leaderVars>>
notRetryVars == <<callVars, builderVars, replicaVars, networkVars, leaderVars>>
notLeaderVars == <<callVars, builderVars, replicaVars, networkVars, retryVars>>

\* ------------------------------------------------- ConnectionPool::create
\* a pool built one connection larger than pool_size
max_size_off_by_one(size) == size + 1

\* Pool::builder().max_size(pool_size)
max_size(size) == size

\* Semaphore::new(pool_size as usize)
limiter_permits(size) == size

\* ---------------------------------------------- ConnectionPool::with_conn
\* a final match that hands a cancellation back as an error value
WithConnOutcome_cancel_as_err(r) ==
    CASE r = "Ok" -> "returned_ok"
      [] r = "Err" -> "returned_err"
      [] r = "Cancel" -> "returned_err"
      [] r = "Panic" -> "panicked"

\* the final `match result` of with_conn, after `.await.unwrap()`
WithConnOutcome(r) ==
    CASE r = "Ok" -> "returned_ok"
      [] r = "Err" -> "returned_err"
      [] r = "Cancel" -> "panicked"
      [] r = "Panic" -> "panicked"

\* a checkout failure unwrapped inside the task instead of mapped to Err
GetErrorResult_unwrap == "Panic"

\* what a failed pool.get() becomes inside the blocking task
GetErrorResult == "Err"

\* the task is inside setup's closure, past try-lock(1) and before the
\* unlock statement has completed
HoldsLocksPhase(c) ==
    /\ task[c] = "closure"
    /\ sp[c] \in {"lock2", "fdw", "migrate", "map", "unlock1", "unlock2"}

\* `let _permit = self.limiter.acquire().await;` up to spawn_blocking
Acquire(c) ==
    /\ fut[c] = "new"
    /\ permits[poolOf[c]] > 0
    /\ permits' = [permits EXCEPT ![poolOf[c]] = @ - 1]
    /\ fut' = [fut EXCEPT ![c] = "awaiting"]
    /\ task' = [task EXCEPT ![c] = "spawned"]
    /\ UNCHANGED <<poolVars, idle, conn, cancelled, closureRet, taskResult, setupVars>>

\* the with_conn future is dropped at one of its two await points: the
\* permit and the cancel guard are dropped with it, the blocking task is not
Abandon(c) ==
    /\ fut[c] \in {"new", "awaiting"}
    /\ fut' = [fut EXCEPT ![c] = "abandoned"]
    /\ IF fut[c] = "awaiting"
       THEN /\ permits' = [permits EXCEPT ![poolOf[c]] = @ + 1]
            /\ cancelled' = [cancelled EXCEPT ![c] = TRUE]
            /\ cancelAt' = [cancelAt EXCEPT ![c] =
                                IF HoldsLocksPhase(c) THEN "locked" ELSE "other"]
       ELSE UNCHANGED <<permits, cancelled, cancelAt>>
    /\ UNCHANGED <<confVars, idle, task, conn, closureRet, taskResult, setupVars>>

\* first `cancel_handle.check_cancel()?`
CheckCancelBeforeGet(c) ==
    /\ task[c] = "spawned"
    /\ IF cancelled[c]
       THEN /\ task' = [task EXCEPT ![c] = "done"]
            /\ taskResult' = [taskResult EXCEPT ![c] = "Cancel"]
       ELSE /\ task' = [task EXCEPT ![c] = "getting"]
            /\ UNCHANGED taskResult
    /\ UNCHANGED <<poolVars, permits, idle, fut, conn, cancelled, closureRet, setupVars>>

\* `pool.get()` hands out a connection
PoolGet(c) ==
    /\ task[c] = "getting"
    /\ idle[poolOf[c]] > 0
    /\ idle' = [idle EXCEPT ![poolOf[c]] = @ - 1]
    /\ conn' = [conn EXCEPT ![c] = "held"]
    /\ task' = [task EXCEPT ![c] = "have_conn"]
    /\ UNCHANGED <<poolVars, permits, fut, cancelled, closureRet, taskResult, setupVars>>

\* `pool.get()` fails (connection error or checkout timeout)
PoolGetFail(c) ==
    /\ task[c] = "getting"
    /\ conn' = [conn EXCEPT ![c] = "failed"]
    /\ task' = [task EXCEPT ![c] = "done"]
    /\ taskResult' = [taskResult EXCEPT ![c] = GetErrorResult]
    /\ UNCHANGED <<poolVars, permits, idle, fut, cancelled, closureRet, setupVars>>

\* a task that goes from `pool.get()` straight to the closure
CheckCancelAfterGet_skipped(c) ==
    /\ task[c] = "have_conn"
    /\ task' = [task EXCEPT ![c] = "closure"]
    /\ UNCHANGED <<poolVars, permits, idle, fut, conn, cancelled, closureRet,
                   taskResult, setupVars>>

\* second `cancel_handle.check_cancel()?`
CheckCancelAfterGet(c) ==
    /\ task[c] = "have_conn"
    /\ IF cancelled[c]
       THEN /\ task' = [task EXCEPT ![c] = "done"]
            /\ taskResult' = [taskResult EXCEPT ![c] = "Cancel"]
            /\ conn' = [conn EXCEPT ![c] = "returned"]
            /\ idle' = [idle EXCEPT ![poolOf[c]] = @ + 1]
       ELSE /\ task' = [task EXCEPT ![c] = "closure"]
            /\ UNCHANGED <<taskResult, conn, idle>>
    /\ UNCHANGED <<poolVars, permits, fut, cancelled, closureRet, setupVars>>

\* `f(&conn, &cancel_handle)` for an arbitrary closure: it returns r or panics
ClosureReturn(c, r) ==
    /\ task[c] = "closure"
    /\ closureRet' = [closureRet EXCEPT ![c] = r]
    /\ taskResult' = [taskResult EXCEPT ![c] = r]
    /\ conn' = [conn EXCEPT ![c] = "returned"]
    /\ idle' = [idle EXCEPT ![poolOf[c]] = @ + 1]
    /\ task' = [task EXCEPT ![c] = "done"]
    /\ UNCHANGED <<poolVars, permits, fut, cancelled, setupVars>>

\* a call that ends without giving its permit back
Join_keeps_permit(c) ==
    /\ fut[c] = "awaiting"
    /\ task[c] = "done"
    /\ fut' = [fut EXCEPT ![c] = WithConnOutcome(taskResult[c])]
    /\ cancelled' = [cancelled EXCEPT ![c] = TRUE]
    /\ UNCHANGED <<poolVars, permits, idle, task, conn, closureRet,
                   taskResult, setupVars>>

\* `.await.unwrap()`, `drop(cancel_guard)`, the final match, `_permit` dropped
Join(c) ==
    /\ fut[c] = "awaiting"
    /\ task[c] = "done"
    /\ fut' = [fut EXCEPT ![c] = WithConnOutcome(taskResult[c])]
    /\ cancelled' = [cancelled EXCEPT ![c] = TRUE]
    /\ permits' = [permits EXCEPT ![poolOf[c]] = @ + 1]
    /\ UNCHANGED <<poolVars, idle, task, conn, closureRet, taskResult, setupVars>>

InitCalls(cs) ==
    /\ callers = cs
    /\ fut = [c \in cs |-> "new"]
    /\ task = [c \in cs |-> "none"]
    /\ conn = [c \in cs |-> "none"]
    /\ cancelled = [c \in cs |-> FALSE]
    /\ closureRet = [c \in cs |-> "none"]
    /\ taskResult = [c \in cs |-> "none"]
    /\ lock1 = [s \in Shards |-> NoSession]
    /\ lock2 = [s \in Shards |-> NoSession]
    /\ sp = [c \in cs |-> "try1"]
    /\ migrate = [c \in cs |-> "unknown"]
    /\ sawLeader = [c \in cs |-> NoSession]
    /\ result = [c \in cs |-> "Ok"]
    /\ failed = [c \in cs |-> "none"]
    /\ steps = [c \in cs |-> <<>>]
    /\ cancelAt = [c \in cs |-> "never"]

\* ---------------------------------------------------------------- SpecPool
\* MaxCallers callers of with_conn on one pool of size 1..MaxPoolSize
InitPool ==
    /\ InitCalls(1..MaxCallers)
    /\ poolOf = [c \in 1..MaxCallers |-> 1]
    /\ shardOf = [c \in 1..MaxCallers |-> 1]
    /\ pool_size \in 1..MaxPoolSize
    /\ permits = [q \in {1} |-> limiter_permits(pool_size)]
    /\ idle = [q \in {1} |-> max_size(pool_size)]
    /\ ExtUnused

NextPool ==
    \/ \E c \in callers : Acquire(c)
    \/ \E c \in callers : Abandon(c)
    \/ \E c \in callers : CheckCancelBeforeGet(c)
    \/ \E c \in callers : PoolGet(c)
    \/ \E c \in callers : PoolGetFail(c)
    \/ \E c \in callers : CheckCancelAfterGet(c)
    \/ \E c \in callers, r \in Outcomes : ClosureReturn(c, r)
    \/ \E c \in callers : Join(c)

SpecPool == InitPool /\ [][NextPool]_vars

\* ------------------------------------------------- ConnectionPool::setup
\* Session-level advisory locks of one shard database.  The session of a
\* call is the connection with_conn handed to its closure.
\* a try-lock that succeeds whoever holds the lock
pg_try_advisory_lock_always(holder, c) == TRUE

\* pg_try_advisory_lock(1): true iff the lock is free or already ours
pg_try_advisory_lock(holder, c) == holder \in {NoSession, c}

\* a lock(2) that does not wait for the holder
pg_advisory_lock_no_wait(holder, c) == TRUE

\* pg_advisory_lock(2) returns once the lock is free or already ours
pg_advisory_lock_granted(holder, c) == holder \in {NoSession, c}

\* an unlock that releases nothing
pg_advisory_unlock_keeps(holder, c) == holder

\* pg_advisory_unlock(k): releases the lock iff this session holds it
pg_advisory_unlock(holder, c) == IF holder = c THEN NoSession ELSE holder

\* a closure that polls the handle before each leader step
setup_polls_cancel_each_step(handle_cancelled) == handle_cancelled

\* setup's closure is `move |conn, _|`: the cancel handle is never polled
setup_polls_cancel(handle_cancelled) == FALSE

\* an Err that goes straight to `result.expect`, past the unlock statement
and_then_skips_unlock(r, next) == IF r = "Ok" THEN next ELSE "expect"

\* a chain that runs the next step whatever the previous one returned
and_then_ignores_err(r, next) == next

\* Result::and_then in `configure_fdw(..).and_then(..).and_then(..)`: the
\* next step runs on Ok, an Err falls through to the unlock statement
and_then(r, next) == IF r = "Ok" THEN next ELSE "unlock1"

\* a migrate_schema that takes a run without output for a failed one
migrate_schema_needs_output(tool_result, has_output) ==
    IF has_output /\ tool_result = "Ok" THEN "Ok" ELSE "Err"

\* migrate_schema's return value from run_with_output's result and whether
\* the migration tool wrote any output
migrate_schema(tool_result, has_output) ==
    IF has_output /\ tool_result = "Err" THEN "Err" ELSE "Ok"

\* `result.expect("migration succeeds"); Ok(())`
expect_migration_succeeds(r) == IF r = "Ok" THEN "Ok" ELSE "Panic"

\* the closure ends with r: `conn` goes back to the pool
EndClosure(c, r) ==
    /\ closureRet' = [closureRet EXCEPT ![c] = r]
    /\ taskResult' = [taskResult EXCEPT ![c] = r]
    /\ conn' = [conn EXCEPT ![c] = "returned"]
    /\ idle' = [idle EXCEPT ![poolOf[c]] = @ + 1]
    /\ task' = [task EXCEPT ![c] = "done"]

InClosure(c, at) == task[c] = "closure" /\ sp[c] = at

\* the statement "select pg_try_advisory_lock(1) as migrate,
\* pg_advisory_lock(2)" evaluates its two calls one after the other; other
\* sessions run between them.  First call:
TryLock1(c) ==
    /\ InClosure(c, "try1")
    /\ LET s == shardOf[c]
           got == pg_try_advisory_lock(lock1[s], c)
       IN /\ migrate' = [migrate EXCEPT ![c] = IF got THEN "true" ELSE "false"]
          /\ lock1' = [lock1 EXCEPT ![s] = IF got THEN c ELSE @]
          /\ sawLeader' = [sawLeader EXCEPT ![c] = IF got THEN NoSession ELSE lock1[s]]
    /\ sp' = [sp EXCEPT ![c] = "lock2"]
    /\ UNCHANGED <<poolVars, permits, idle, fut, task, conn, cancelled,
                   closureRet, taskResult, lock2, result, failed, steps>>

\* second call: blocks until lock 2 is granted; then `if lock.migrate`
Lock2(c) ==
    /\ InClosure(c, "lock2")
    /\ pg_advisory_lock_granted(lock2[shardOf[c]], c)
    /\ lock2' = [lock2 EXCEPT ![shardOf[c]] = c]
    /\ sp' = [sp EXCEPT ![c] = IF migrate[c] = "true" THEN "fdw" ELSE "unlock1"]
    /\ UNCHANGED <<poolVars, permits, idle, fut, task, conn, cancelled,
                   closureRet, taskResult, lock1, migrate, sawLeader, result,
                   failed, steps>>

\* one of the leader's three steps ends with r from an operation that
\* failed or not
LeaderStep(c, which, op_failed, r, next) ==
    IF setup_polls_cancel(cancelled[c])
    THEN /\ EndClosure(c, "Cancel")
         /\ sp' = [sp EXCEPT ![c] = "done"]
         /\ UNCHANGED <<poolVars, permits, fut, cancelled, lock1, lock2,
                        migrate, sawLeader, result, failed, steps>>
    ELSE /\ result' = [result EXCEPT ![c] = r]
         /\ failed' = [failed EXCEPT ![c] = IF op_failed THEN which ELSE @]
         /\ steps' = [steps EXCEPT ![c] = Append(@, which)]
         /\ sp' = [sp EXCEPT ![c] = and_then(r, next)]
         /\ UNCHANGED <<poolVars, permits, idle, fut, task, conn, cancelled,
                        closureRet, taskResult, lock1, lock2, migrate, sawLeader>>

\* configure_fdw: `self.get()?` takes a second connection of the same pool
\* for the transaction and gives it back; it fails if none can be had or
\* the transaction fails
ConfigureFdw(c, r) ==
    /\ InClosure(c, "fdw")
    /\ r = "Ok" => idle[poolOf[c]] > 0
    /\ LeaderStep(c, "fdw", r = "Err", r, "migrate")

\* migrate_schema(&pool.logger, conn) on the closure's own connection:
\* run_with_output ends with tool_result, having written output or not
MigrateSchema(c, tool_result, has_output) ==
    /\ InClosure(c, "migrate")
    /\ LeaderStep(c, "migrate", tool_result = "Err",
                  migrate_schema(tool_result, has_output), "map")

\* pool.map_primary(): `self.get()?` and a transaction, as configure_fdw
MapPrimary(c, r) ==
    /\ InClosure(c, "map")
    /\ r = "Ok" => idle[poolOf[c]] > 0
    /\ LeaderStep(c, "map", r = "Err", r, "unlock1")

\* "select pg_advisory_unlock(1), pg_advisory_unlock(2)": first call
Unlock1(c) ==
    /\ InClosure(c, "unlock1")
    /\ lock1' = [lock1 EXCEPT ![shardOf[c]] = pg_advisory_unlock(@, c)]
    /\ sp' = [sp EXCEPT ![c] = "unlock2"]
    /\ UNCHANGED <<poolVars, permits, idle, fut, task, conn, cancelled,
                   closureRet, taskResult, lock2, migrate, sawLeader, result,
                   failed, steps>>

\* second call
Unlock2(c) ==
    /\ InClosure(c, "unlock2")
    /\ lock2' = [lock2 EXCEPT ![shardOf[c]] = pg_advisory_unlock(@, c)]
    /\ sp' = [sp EXCEPT ![c] = "expect"]
    /\ UNCHANGED <<poolVars, permits, idle, fut, task, conn, cancelled,
                   closureRet, taskResult, lock1, migrate, sawLeader, result,
                   failed, steps>>

\* `result.expect("migration succeeds"); Ok(())` ends the closure
Expect(c) ==
    /\ InClosure(c, "expect")
    /\ EndClosure(c, expect_migration_succeeds(result[c]))
    /\ sp' = [sp EXCEPT ![c] = "done"]
    /\ UNCHANGED <<poolVars, permits, fut, cancelled, lock1, lock2, migrate,
                   sawLeader, result, failed, steps>>

\* --------------------------------------------------------------- SpecSetup
\* the ways of spreading the processes over the shard databases.  Processes
\* are interchangeable and so are the shards, so processes are numbered in
\* the order of their shards and shards in the order of their share of
\* the processes.
ProcsOn(f, s) == Cardinality({c \in 1..MaxProcs : f[c] = s})

ShardAssignments ==
    {f \in [1..MaxProcs -> Shards] :
        /\ \A c \in 1..(MaxProcs - 1) : f[c] <= f[c + 1]
        /\ \A s \in 1..(MaxShards - 1) : ProcsOn(f, s) >= ProcsOn(f, s + 1)}

\* MaxProcs processes, each with its own pool, each calling setup once on
\* a shard database; all advisory locks start free.  A pool serves one
\* with_conn call here, so the pool sizes that differ are 1 and any larger.
InitSetup ==
    /\ InitCalls(1..MaxProcs)
    /\ poolOf = [c \in 1..MaxProcs |-> c]
    /\ shardOf \in ShardAssignments
    /\ pool_size \in {1, MaxPoolSize}
    /\ permits = [q \in 1..MaxProcs |-> limiter_permits(pool_size)]
    /\ idle = [q \in 1..MaxProcs |-> max_size(pool_size)]
    /\ ExtUnused

NextSetup ==
    \/ \E c \in callers : Acquire(c)
    \/ \E c \in callers : Abandon(c)
    \/ \E c \in callers : CheckCancelBeforeGet(c)
    \/ \E c \in callers : PoolGet(c)
    \/ \E c \in callers : PoolGetFail(c)
    \/ \E c \in callers : CheckCancelAfterGet(c)
    \/ \E c \in callers : Join(c)
    \/ \E c \in callers : TryLock1(c)
    \/ \E c \in callers : Lock2(c)
    \/ \E c \in callers, r \in {"Ok", "Err"} : ConfigureFdw(c, r)
    \/ \E c \in callers, tool_result \in {"Ok", "Err"}, has_output \in BOOLEAN :
           MigrateSchema(c, tool_result, has_output)
    \/ \E c \in callers, r \in {"Ok", "Err"} : MapPrimary(c, r)
    \/ \E c \in callers : Unlock1(c)
    \/ \E c \in callers : Unlock2(c)
    \/ \E c \in callers : Expect(c)

SpecSetup == InitSetup /\ [][NextSetup]_vars

\* The setups with pools of at least two connections, no caller abandoned
\* and every database operation succeeding.
InitSetupLive == InitSetup /\ pool_size >= 2

NextSetupLive ==
    \/ \E c \in callers : Acquire(c)
    \/ \E c \in callers : CheckCancelBeforeGet(c)
    \/ \E c \in callers : PoolGet(c)
    \/ \E c \in callers : CheckCancelAfterGet(c)
    \/ \E c \in callers : Join(c)
    \/ \E c \in callers : TryLock1(c)
    \/ \E c \in callers : Lock2(c)
    \/ \E c \in callers : ConfigureFdw(c, "Ok")
    \/ \E c \in callers, has_output \in BOOLEAN :
           MigrateSchema(c, "Ok", has_output)
    \/ \E c \in callers : MapPrimary(c, "Ok")
    \/ \E c \in callers : Unlock1(c)
    \/ \E c \in callers : Unlock2(c)
    \/ \E c \in callers : Expect(c)

\* the steps of call c: its future, its blocking task and the statements
\* of its session
SetupLiveStep(c) ==
    \/ Acquire(c)
    \/ CheckCancelBeforeGet(c)
    \/ PoolGet(c)
    \/ CheckCancelAfterGet(c)
    \/ Join(c)
    \/ TryLock1(c)
    \/ Lock2(c)
    \/ ConfigureFdw(c, "Ok")
    \/ \E has_output \in BOOLEAN : MigrateSchema(c, "Ok", has_output)
    \/ MapPrimary(c, "Ok")
    \/ Unlock1(c)
    \/ Unlock2(c)
    \/ Expect(c)

\* Futures are polled, blocking tasks run and the database serves a
\* session whose statement can proceed: a call that can take a step
\* eventually takes it.
SpecSetupLive ==
    /\ InitSetupLive
    /\ [][NextSetupLive]_vars
    /\ \A c \in 1..MaxProcs : WF_vars(SetupLiveStep(c))

\* ------------------------------------------------------- StoreBuilder::new
\* no with_conn call is followed
NoCalls ==
    /\ InitCalls({})
    /\ poolOf = <<>>
    /\ shardOf = <<>>
    /\ pool_size = 1
    /\ permits = <<>>
    /\ idle = <<>>

\* A connection string is modelled by whether it parses and which of the
\* parts ForeignServer::new asks for it carries.
Parts == {"host", "user", "password", "dbname"}

Urls ==
    {[parses |-> TRUE, has |-> h] : h \in SUBSET Parts}
        \cup {[parses |-> FALSE, has |-> {}]}

CompleteUrl == [parses |-> TRUE, has |-> Parts]

\* a shard without a replica
NoReplica == [parses |-> FALSE, has |-> {"none"}]

\* the replica connection strings tried: none, a complete one, one without
\* a password
ReplicaUrls ==
    {NoReplica, CompleteUrl, [parses |-> TRUE, has |-> Parts \ {"password"}]}

\* a ForeignServer::new that does not ask for a password
ForeignServerNew_password_optional(url) ==
    IF ~url.parses THEN "Panic"
    ELSE IF "host" \notin url.has THEN "Err"
    ELSE IF "user" \notin url.has THEN "Err"
    ELSE IF "dbname" \notin url.has THEN "Err"
    ELSE "Ok"

\* ForeignServer::new: panic on a string that does not parse, Err on the
\* first of host, user, password, dbname that is missing
ForeignServerNew(url) ==
    IF ~url.parses THEN "Panic"
    ELSE IF "host" \notin url.has THEN "Err"
    ELSE IF "user" \notin url.has THEN "Err"
    ELSE IF "password" \notin url.has THEN "Err"
    ELSE IF "dbname" \notin url.has THEN "Err"
    ELSE "Ok"

\* pools.values().map(|pool| pool.connection_detail()).collect::<Result<..>>()
\* over the main pools only
connection_details(main_urls) ==
    IF \E s \in Shards : ForeignServerNew(main_urls[s]) = "Panic" THEN "Panic"
    ELSE IF \E s \in Shards : ForeignServerNew(main_urls[s]) = "Err" THEN "Err"
    ELSE "Ok"

\* a join that completes with the first setup that returns
join_all_first_ready(states) == \E s \in Shards : states[s] = "returned"

\* join_all(..).await completes when every future has
join_all_ready(states) == \A s \in Shards : states[s] = "returned"

\* make_sharded_store_and_primary_pool: main and replica pools of every
\* shard are created and SubgraphStore::new is given them
MakePools ==
    /\ builder = "pools"
    /\ builder' = "details"
    /\ UNCHANGED <<urls, replicaUrls, abortedAt, setupOf, notBuilderVars>>

\* `.build(conn_manager).unwrap()` when a pool cannot connect
MakePoolsPanics ==
    /\ builder = "pools"
    /\ builder' = "panicked"
    /\ abortedAt' = "pools"
    /\ UNCHANGED <<urls, replicaUrls, setupOf, notBuilderVars>>

\* `let details = ... .expect("connection url's contain enough detail")`
ConnectionDetails ==
    /\ builder = "details"
    /\ IF connection_details(urls) = "Ok"
         THEN builder' = "setup" /\ UNCHANGED abortedAt
         ELSE builder' = "panicked" /\ abortedAt' = "details"
    /\ UNCHANGED <<urls, replicaUrls, setupOf, notBuilderVars>>

\* join_all polls the setup future of shard s for the first time
StartSetup(s) ==
    /\ builder = "setup"
    /\ setupOf[s] = "pending"
    /\ setupOf' = [setupOf EXCEPT ![s] = "running"]
    /\ UNCHANGED <<urls, replicaUrls, builder, abortedAt, notBuilderVars>>

\* the setup of shard s returns
SetupReturns(s) ==
    /\ builder = "setup"
    /\ setupOf[s] = "running"
    /\ setupOf' = [setupOf EXCEPT ![s] = "returned"]
    /\ UNCHANGED <<urls, replicaUrls, builder, abortedAt, notBuilderVars>>

\* the setup of shard s panics; the panic unwinds through join_all
SetupPanics(s) ==
    /\ builder = "setup"
    /\ setupOf[s] = "running"
    /\ setupOf' = [setupOf EXCEPT ![s] = "panicked"]
    /\ builder' = "panicked"
    /\ abortedAt' = "setup"
    /\ UNCHANGED <<urls, replicaUrls, notBuilderVars>>

\* join_all completes, `chains` is built and StoreBuilder::new returns
NewReturns ==
    /\ builder = "setup"
    /\ join_all_ready(setupOf)
    /\ builder' = "built"
    /\ UNCHANGED <<urls, replicaUrls, abortedAt, setupOf, notBuilderVars>>

\* network_store(self, ..) gives self.pools to DieselBlockStore::new
NetworkStore ==
    /\ builder = "built"
    /\ builder' = "handed"
    /\ UNCHANGED <<urls, replicaUrls, abortedAt, setupOf, notBuilderVars>>

InitBuilder ==
    /\ NoCalls
    /\ LeaderUnused
    /\ RetryUnused
    /\ ReplicasUnused
    /\ NetworksUnused
    /\ urls \in [Shards -> Urls]
    /\ replicaUrls \in [Shards -> ReplicaUrls]
    /\ builder = "pools"
    /\ abortedAt = "none"
    /\ setupOf = [s \in Shards |-> "pending"]

NextBuilder ==
    \/ MakePools
    \/ MakePoolsPanics
    \/ ConnectionDetails
    \/ \E s \in Shards : StartSetup(s)
    \/ \E s \in Shards : SetupReturns(s)
    \/ \E s \in Shards : SetupPanics(s)
    \/ NewReturns
    \/ NetworkStore

SpecBuilder == InitBuilder /\ [][NextBuilder]_vars

\* ----------------------------------------------- StoreBuilder::replica_pools
Weights == 0..MaxWeight

\* the sequences over S of length at most n
SeqsUpTo(S, n) == UNION {[1..k -> S] : k \in 0..n}

\* a role named after the iterator's own count
replica_role_zero_based(i) == <<"replica", i>>

\* format!("replica{}", i + 1) for the i of enumerate()
replica_role(i) == <<"replica", i + 1>>

\* one turn of the map closure for the next replica: its weight is pushed
\* and its pool created
ReplicaPool ==
    /\ rpc = "collect"
    /\ ri < Len(replicas)
    /\ weights' = Append(weights, replicas[ri + 1])
    /\ replPools' = Append(replPools,
                           [role |-> replica_role(ri), replica |-> ri + 1])
    /\ ri' = ri + 1
    /\ UNCHANGED <<replicas, shardWeight, rpc, notReplicaVars>>

\* the turn panics after the push: no pool size for the replica, or
\* ConnectionPool::create cannot connect
ReplicaPoolPanics ==
    /\ rpc = "collect"
    /\ ri < Len(replicas)
    /\ weights' = Append(weights, replicas[ri + 1])
    /\ rpc' = "panicked"
    /\ UNCHANGED <<replicas, shardWeight, ri, replPools, notReplicaVars>>

\* collect() is done and the tuple (pools, weights) is returned
ReplicaPoolsReturn ==
    /\ rpc = "collect"
    /\ ri = Len(replicas)
    /\ rpc' = "returned"
    /\ UNCHANGED <<replicas, shardWeight, ri, replPools, weights,
                   notReplicaVars>>

InitReplicas ==
    /\ NoCalls
    /\ LeaderUnused
    /\ RetryUnused
    /\ BuilderUnused
    /\ NetworksUnused
    /\ replicas \in SeqsUpTo(Weights, MaxReplicas)
    /\ shardWeight \in Weights
    /\ ri = 0
    /\ replPools = <<>>
    /\ weights = <<shardWeight>>
    /\ rpc = "collect"

NextReplicas ==
    \/ ReplicaPool
    \/ ReplicaPoolPanics
    \/ ReplicaPoolsReturn

SpecReplicas == InitReplicas /\ [][NextReplicas]_vars

\* ---------------------------------------------- StoreBuilder::network_store
PRIMARY_SHARD == 1     \* the shard named by PRIMARY_SHARD
InvalidName == 0       \* a shard name ShardName::new rejects

NetworkNames == 1..MaxNetworks
Idents == {"ident_a", "ident_b"}

\* config.chains.chains: some of the network names, each with a shard name
ChainConfigs ==
    UNION {[D -> Shards \cup {InvalidName}] : D \in SUBSET NetworkNames}

\* ShardName::new(chain.shard.to_string())
ShardName_new(n) == IF n \in Shards THEN <<"Ok", n>> ELSE <<"Err", n>>

\* a lookup that ignores the chain map
resolve_shard_always_primary(chs, name) == PRIMARY_SHARD

\* self.chains.get(&name).unwrap_or(&*PRIMARY_SHARD).clone()
resolve_shard(chs, name) ==
    IF name \in DOMAIN chs THEN chs[name] ELSE PRIMARY_SHARD

\* `let chains = HashMap::from_iter(..)` at the end of StoreBuilder::new;
\* the expect panics on a name that is not valid
BuildChains ==
    /\ npc = "new"
    /\ IF \E n \in DOMAIN configChains :
              ShardName_new(configChains[n])[1] = "Err"
         THEN npc' = "panicked" /\ UNCHANGED chains
         ELSE /\ npc' = "built"
              /\ chains' = [n \in DOMAIN configChains |->
                               ShardName_new(configChains[n])[2]]
    /\ UNCHANGED <<configChains, networks, triples, notNetworkVars>>

\* network_store: one turn of the map closure over `networks`
ResolveNetwork ==
    /\ npc \in {"built", "resolving"}
    /\ Len(triples) < Len(networks)
    /\ LET next == networks[Len(triples) + 1]
       IN triples' = Append(triples,
                            <<next[1], next[2], resolve_shard(chains, next[1])>>)
    /\ npc' = "resolving"
    /\ UNCHANGED <<configChains, chains, networks, notNetworkVars>>

\* collect() is done: the triples go to DieselBlockStore::new
NetworksResolved ==
    /\ npc \in {"built", "resolving"}
    /\ Len(triples) = Len(networks)
    /\ npc' = "returned"
    /\ UNCHANGED <<configChains, chains, networks, triples, notNetworkVars>>

InitNetworks ==
    /\ NoCalls
    /\ LeaderUnused
    /\ RetryUnused
    /\ BuilderUnused
    /\ ReplicasUnused
    /\ configChains \in ChainConfigs
    /\ chains = <<>>
    /\ networks \in SeqsUpTo(NetworkNames \X Idents, MaxNetworks)
    /\ triples = <<>>
    /\ npc = "new"

NextNetworks ==
    \/ BuildChains
    \/ ResolveNetwork
    \/ NetworksResolved

SpecNetworks == InitNetworks /\ [][NextNetworks]_vars

\* ------------------------------- ConnectionPool::get_with_timeout_warning
Getters == 1..MaxGetters

\* a loop that hands the error of a failed attempt to its caller
on_checkout_error_gives_up == "return_err"

\* the Err arm of the match only logs; the loop goes round again
on_checkout_error == "retry"

\* self.get_timeout(Duration::from_secs(60)) hands out a connection
GetTimeoutOk(g) ==
    /\ gpc[g] = "loop"
    /\ free > 0
    /\ free' = free - 1
    /\ attempt' = [attempt EXCEPT ![g] = "conn"]
    /\ gpc' = [gpc EXCEPT ![g] = "matched_ok"]
    /\ UNCHANGED <<retried, gret, notRetryVars>>

\* get_timeout fails: no connection within the timeout, or the database
\* cannot be reached
GetTimeoutErr(g) ==
    /\ gpc[g] = "loop"
    /\ attempt' = [attempt EXCEPT ![g] = "err"]
    /\ gpc' = [gpc EXCEPT ![g] = "matched_err"]
    /\ UNCHANGED <<retried, gret, free, notRetryVars>>

\* `Ok(conn) => return Ok(conn)`
ReturnConn(g) ==
    /\ gpc[g] = "matched_ok"
    /\ gpc' = [gpc EXCEPT ![g] = "returned"]
    /\ gret' = [gret EXCEPT ![g] = "Ok"]
    /\ UNCHANGED <<attempt, retried, free, notRetryVars>>

\* `Err(e) => error!(..)`
LogAndRetry(g) ==
    /\ gpc[g] = "matched_err"
    /\ retried' = [retried EXCEPT ![g] = TRUE]
    /\ IF on_checkout_error = "retry"
         THEN gpc' = [gpc EXCEPT ![g] = "loop"] /\ UNCHANGED gret
         ELSE /\ gpc' = [gpc EXCEPT ![g] = "returned"]
              /\ gret' = [gret EXCEPT ![g] = "Err"]
    /\ UNCHANGED <<attempt, free, notRetryVars>>

\* the caller drops the connection it was given
DropConn(g) ==
    /\ gpc[g] = "returned"
    /\ attempt[g] = "conn"
    /\ free' = free + 1
    /\ gpc' = [gpc EXCEPT ![g] = "dropped"]
    /\ UNCHANGED <<attempt, retried, gret, notRetryVars>>

InitRetry ==
    /\ NoCalls
    /\ LeaderUnused
    /\ BuilderUnused
    /\ ReplicasUnused
    /\ NetworksUnused
    /\ gpc = [g \in Getters |-> "loop"]
    /\ attempt = [g \in Getters |-> "none"]
    /\ retried = [g \in Getters |-> FALSE]
    /\ gret = [g \in Getters |-> "none"]
    /\ free \in {max_size(n) : n \in 1..MaxPoolSize}

NextRetry ==
    \/ \E g \in Getters : GetTimeoutOk(g)
    \/ \E g \in Getters : GetTimeoutErr(g)
    \/ \E g \in Getters : ReturnConn(g)
    \/ \E g \in Getters : LogAndRetry(g)
    \/ \E g \in Getters : DropConn(g)

SpecRetry == InitRetry /\ [][NextRetry]_vars

\* The loop is straight-line code of a running thread: get_timeout comes
\* back within its timeout and each match arm is then executed.
SpecRetryFair ==
    /\ SpecRetry
    /\ \A g \in Getters :
           /\ WF_vars(GetTimeoutOk(g) \/ GetTimeoutErr(g))
           /\ WF_vars(ReturnConn(g))
           /\ WF_vars(LogAndRetry(g))

\* ------------------------------------- the leader's work on one database
\* Leader passes on one database follow one another: lock 1 admits one
\* leader at a time.  A pass is the `if lock.migrate` branch of setup.
\* ForeignServer::name: "shard_<name>"
ForeignServer_name(shard) == <<"shard", shard>>

AllNames == {ForeignServer_name(s) : s \in Shards}
OtherNames(shard) == {ForeignServer_name(s) : s \in Shards \ {shard}}

\* a loop that takes every server of `servers`
handles_every_server(server_shard, self_shard) == TRUE

\* servers.iter().filter(|server| server.shard != self.shard)
handles_server(server_shard, self_shard) == server_shard # self_shard

\* a check that finds no server registered
current_servers_contains_nothing(servers, name) == FALSE

\* current_servers.contains(&server.name)
current_servers_contains(servers, name) == name \in servers

\* what the database answers to `create server` and `alter server`: a
\* server is created once and altered only when it exists
ddl_result(op, servers, name) ==
    IF (op = "create") = (name \notin servers) THEN "Ok" ELSE "Err"

\* a leader starts its pass
StartPass ==
    /\ lp = "idle"
    /\ lpass < MaxPasses
    /\ lpass' = lpass + 1
    /\ lp' = "fdw"
    /\ lresult' = "Ok"
    /\ ops' = <<>>
    /\ later' = (okFdw >= 1)
    /\ migrationRun' = <<"none", FALSE>>
    /\ statsReset' = "no"
    /\ remapped' = "no"
    /\ UNCHANGED <<ldb, registered, current, tx, todo, creates, okFdw,
                   primaryPublic, mapped, mapsOk, notLeaderVars>>

\* configure_fdw: `self.get()?`, then the transaction opens and reads
\* catalog::current_servers
FdwBegin(get_fails) ==
    /\ lp = "fdw"
    /\ IF get_fails
         THEN /\ lresult' = "Err"
              /\ lp' = and_then("Err", "migrate")
              /\ UNCHANGED <<current, tx, todo>>
         ELSE /\ current' = registered
              /\ tx' = registered
              /\ todo' = Shards
              /\ lp' = "fdw_tx"
              /\ UNCHANGED lresult
    /\ UNCHANGED <<ldb, registered, ops, creates, okFdw, later, mapVars,
                   lpass, migrationRun, statsReset,
                   notLeaderVars>>

\* one turn of the loop over `servers`; an Err leaves the closure and the
\* transaction rolls back
FdwServer(s, db_fails) ==
    /\ lp = "fdw_tx"
    /\ s \in todo
    /\ IF ~handles_server(s, ldb)
         THEN /\ ~db_fails
              /\ todo' = todo \ {s}
              /\ UNCHANGED <<tx, ops, lresult, lp>>
         ELSE LET name == ForeignServer_name(s)
                  op == IF current_servers_contains(current, name)
                        THEN "update" ELSE "create"
                  r == IF db_fails THEN "Err" ELSE ddl_result(op, tx, name)
              IN /\ ops' = (name :> op) @@ ops
                 /\ IF r = "Ok"
                      THEN /\ tx' = tx \cup {name}
                           /\ todo' = todo \ {s}
                           /\ UNCHANGED <<lresult, lp>>
                      ELSE /\ tx' = registered
                           /\ todo' = {}
                           /\ lresult' = "Err"
                           /\ lp' = and_then("Err", "migrate")
    /\ UNCHANGED <<ldb, registered, current, creates, okFdw, later, mapVars,
                   lpass, migrationRun, statsReset,
                   notLeaderVars>>

\* the closure returned Ok(()): the transaction commits
FdwCommit ==
    /\ lp = "fdw_tx"
    /\ todo = {}
    /\ registered' = tx
    /\ creates' = [n \in AllNames |->
                      IF n \in DOMAIN ops /\ ops[n] = "create"
                      THEN creates[n] + 1 ELSE creates[n]]
    /\ okFdw' = okFdw + 1
    /\ lp' = and_then("Ok", "migrate")
    /\ UNCHANGED <<ldb, current, tx, todo, ops, later, mapVars, lresult,
                   lpass, migrationRun, statsReset,
                   notLeaderVars>>

\* the two tables map_primary names
MappedTables == {"deployment_schemas", "chains"}

\* an object of primary_public that map_primary does not make
Stale == <<"table", "stale">>

\* the database has no schema primary_public
NoSchema == {<<"no schema", "primary_public">>}

\* migrate_schema on the pass's connection.  On the primary the run leaves
\* the mapped tables in place when it succeeds; a run that fails after
\* printing output has applied some of the migrations; a run with nothing
\* pending prints nothing.
\* a reset whose error migrate_schema hands on
stats_reset_result_propagated(reset_fails) ==
    IF reset_fails THEN "Err" ELSE "Ok"

\* `conn.batch_execute("select pg_stat_statements_reset()").ok()`: what the
\* statement answered is dropped
stats_reset_result(reset_fails) == "Ok"

\* migrate_schema reaches its second `if has_output` unless the first one
\* returned the run's error
resets_stats(tool_result, has_output) ==
    has_output /\ ~(has_output /\ tool_result = "Err")

MigrateL(tool_result, has_output, reset_fails) ==
    /\ lp = "migrate"
    /\ reset_fails => resets_stats(tool_result, has_output)
    /\ statsReset' = IF ~resets_stats(tool_result, has_output) THEN "no"
                     ELSE IF reset_fails THEN "failed" ELSE "done"
    /\ (ldb = PRIMARY_SHARD /\ tool_result = "Ok" /\ ~has_output)
           => primaryPublic = MappedTables
    /\ IF ldb # PRIMARY_SHARD \/ ~has_output
         THEN UNCHANGED primaryPublic
         ELSE IF tool_result = "Ok"
         THEN primaryPublic' = MappedTables
         ELSE \E T \in SUBSET MappedTables :
                  primaryPublic \subseteq T /\ primaryPublic' = T
    /\ migrationRun' = <<tool_result, has_output>>
    /\ LET r == IF resets_stats(tool_result, has_output)
                   /\ stats_reset_result(reset_fails) = "Err"
                THEN "Err"
                ELSE migrate_schema(tool_result, has_output)
       IN /\ lresult' = r
          /\ lp' = and_then(r, "map")
    /\ UNCHANGED <<ldb, fdwVars, mapped, remapped, mapsOk, lpass,
                   notLeaderVars>>

\* what the second batch of ForeignServer::map_primary answers: the views
\* need their tables, the import needs the server of the primary
map_primary_result(shard, servers, tables) ==
    IF shard = PRIMARY_SHARD
    THEN IF MappedTables \subseteq tables THEN "Ok" ELSE "Err"
    ELSE IF ForeignServer_name(PRIMARY_SHARD) \in servers THEN "Ok" ELSE "Err"

\* primary_public after `drop schema if exists .. cascade; create schema`
\* and the second batch: two views on the primary, elsewhere the foreign
\* tables for those of the two tables that the primary has
map_primary_objects(shard, tables) ==
    IF shard = PRIMARY_SHARD
    THEN {<<"view", t>> : t \in MappedTables}
    ELSE {<<"foreign table", t>> : t \in MappedTables \cap tables}

\* ConnectionPool::map_primary: `self.get()?` and one transaction around
\* ForeignServer::map_primary
MapL(db_fails) ==
    /\ lp = "map"
    /\ LET r == IF db_fails THEN "Err"
                ELSE map_primary_result(ldb, registered, primaryPublic)
       IN /\ lresult' = r
          /\ lp' = and_then(r, "unlock1")
          /\ IF r = "Ok"
               THEN /\ mapped' = map_primary_objects(ldb, primaryPublic)
                    /\ remapped' = "done"
                    /\ mapsOk' = mapsOk + 1
               ELSE /\ remapped' = "failed"
                    /\ UNCHANGED <<mapped, mapsOk>>
    /\ UNCHANGED <<ldb, fdwVars, primaryPublic, lpass, migrationRun,
                   statsReset, notLeaderVars>>

\* the locks are released and `result.expect(..)` ends the pass
EndPass ==
    /\ lp = "unlock1"
    /\ lp' = "idle"
    /\ UNCHANGED <<ldb, fdwVars, mapVars, lresult, lpass, migrationRun,
                   statsReset, notLeaderVars>>

\* the leader of the primary shard, in this or another process, migrates
\* the primary while the database followed is another one
PrimaryMigrates ==
    /\ ldb # PRIMARY_SHARD
    /\ \E T \in SUBSET MappedTables :
           /\ primaryPublic \subseteq T
           /\ primaryPublic # T
           /\ primaryPublic' = T
    /\ UNCHANGED <<ldb, fdwVars, mapped, remapped, mapsOk, lp, lresult,
                   lpass, migrationRun, statsReset,
                   notLeaderVars>>

InitLeader ==
    /\ NoCalls
    /\ BuilderUnused
    /\ ReplicasUnused
    /\ NetworksUnused
    /\ RetryUnused
    /\ ldb \in Shards
    /\ registered \in SUBSET OtherNames(ldb)
    /\ current = {}
    /\ tx = {}
    /\ todo = {}
    /\ ops = <<>>
    /\ creates = [n \in AllNames |-> 0]
    /\ okFdw = 0
    /\ later = FALSE
    /\ primaryPublic \in SUBSET MappedTables
    /\ mapped \in {NoSchema, {Stale},
                    {Stale} \cup map_primary_objects(ldb, MappedTables)}
    /\ lp = "idle"
    /\ lresult = "Ok"
    /\ lpass = 0
    /\ migrationRun = <<"none", FALSE>>
    /\ statsReset = "no"
    /\ remapped = "no"
    /\ mapsOk = 0

NextLeader ==
    \/ StartPass
    \/ \E get_fails \in BOOLEAN : FdwBegin(get_fails)
    \/ \E s \in Shards, db_fails \in BOOLEAN : FdwServer(s, db_fails)
    \/ FdwCommit
    \/ \E tool_result \in {"Ok", "Err"}, has_output, reset_fails \in BOOLEAN :
           MigrateL(tool_result, has_output, reset_fails)
    \/ \E db_fails \in BOOLEAN : MapL(db_fails)
    \/ EndPass
    \/ PrimaryMigrates

SpecLeader == InitLeader /\ [][NextLeader]_vars

\* ------------------------------------------------------------- properties
OnShard(s) == {c \in callers : shardOf[c] = s}

Observed(c) == migrate[c] # "unknown"

\* holds lock 1 as leader: observed true and has not yet evaluated unlock(1)
ActiveLeader(c) ==
    /\ migrate[c] = "true"
    /\ task[c] = "closure"
    /\ sp[c] \in {"lock2", "fdw", "migrate", "map", "unlock1"}

\* executing configure_fdw, migrate_schema or map_primary
LeaderWork(c) == task[c] = "closure" /\ sp[c] \in {"fdw", "migrate", "map"}

\* the closure evaluated both unlock calls
Released(c) == sp[c] \in {"expect", "done"}

HoldsNoLock(c) == lock1[shardOf[c]] # c /\ lock2[shardOf[c]] # c

\* C1 as stated: once every process of a shard has evaluated try-lock(1),
\* exactly one of them observed true.
C1_ExactlyOneLeader ==
    \A s \in Shards :
        (OnShard(s) # {} /\ \A c \in OnShard(s) : Observed(c))
            => Cardinality({c \in OnShard(s) : migrate[c] = "true"}) = 1

\* C1 amended: among the processes of a shard at least one observes true, at
\* most one at a time has observed true without having released lock 1, and
\* false is observed only while another process that observed true holds
\* lock 1.
C1_LeaderElection ==
    \A s \in Shards :
        /\ (\E c \in OnShard(s) : Observed(c))
               => \E c \in OnShard(s) : migrate[c] = "true"
        /\ Cardinality({c \in OnShard(s) : ActiveLeader(c)}) <= 1
        /\ \A c \in OnShard(s) : ActiveLeader(c) => lock1[s] = c
        /\ \A c \in OnShard(s) :
               migrate[c] = "false"
                   => /\ sawLeader[c] \in OnShard(s) \ {c}
                      /\ migrate[sawLeader[c]] = "true"

C1_Witness ==
    \E c, d \in callers :
        /\ c # d
        /\ shardOf[c] = shardOf[d]
        /\ migrate[c] = "true"
        /\ migrate[d] = "false"

\* C2: on each shard at most one process is executing leader work, and it
\* does so holding advisory lock 2.
C2_LeaderWorkExclusive ==
    \A s \in Shards :
        /\ Cardinality({c \in OnShard(s) : LeaderWork(c)}) <= 1
        /\ \A c \in OnShard(s) : LeaderWork(c) => lock2[s] = c

C2_Witness ==
    \E c, d \in callers :
        /\ c # d
        /\ shardOf[c] = shardOf[d]
        /\ LeaderWork(c)
        /\ InClosure(d, "lock2")

\* C3: a non-leader that got past pg_advisory_lock(2) does so only after the
\* leader it lost try-lock(1) to has finished its work and released lock 2.
C3_NonLeaderWaitsForLeader ==
    \A c \in callers :
        (migrate[c] = "false" /\ sp[c] \in {"unlock1", "unlock2", "expect", "done"})
            => Released(sawLeader[c])

\* C4: a setup closure that reached its end (normally as leader or
\* non-leader, or by the panic on a failed leader step) has evaluated both
\* unlocks and its session holds neither lock.
C4_LocksReleasedAtEnd ==
    \A c \in callers :
        (InClosure(c, "expect") \/ closureRet[c] # "none")
            => /\ HoldsNoLock(c)
               /\ closureRet[c] = "Panic" => (sp[c] = "done" /\ result[c] = "Err")

C4_Witness ==
    \E c, d \in callers :
        /\ closureRet[c] = "Panic"
        /\ failed[c] # "none"
        /\ closureRet[d] = "Ok"
        /\ migrate[d] = "false"

\* C5: a leader whose FDW configuration, migration run or primary mapping
\* failed does not return normally from setup.
C5_FailedStepAborts ==
    \A c \in callers :
        failed[c] # "none" => (closureRet[c] # "Ok" /\ fut[c] # "returned_ok")

\* C6: at most pool_size supplied closures execute at the same time against
\* one pool.
C6_ClosuresBounded ==
    \A q \in DOMAIN idle :
        Cardinality({c \in callers : poolOf[c] = q /\ task[c] = "closure"})
            <= pool_size

C6_Witness ==
    /\ Cardinality({c \in callers : task[c] = "closure"}) = pool_size
    /\ \E c \in callers : task[c] = "closure" /\ fut[c] = "abandoned"
    /\ \E c \in callers : task[c] = "getting" /\ fut[c] = "awaiting"

\* C7: the blocking tasks spawned by with_conn and not yet finished never
\* number more than pool_size.
C7_InFlightBounded ==
    \A q \in DOMAIN idle :
        Cardinality({c \in callers :
                        /\ poolOf[c] = q
                        /\ task[c] \in {"spawned", "getting", "have_conn", "closure"}})
            <= pool_size

\* C8: a call whose closure returned Cancel and whose caller was not
\* abandoned ends in a panic, never in Ok or Err.
C8_CancelDefectPanics ==
    \A c \in callers :
        (closureRet[c] = "Cancel" /\ fut[c] \notin {"awaiting", "abandoned"})
            => fut[c] = "panicked"

C8_Witness ==
    \E c \in callers :
        /\ closureRet[c] = "Cancel"
        /\ cancelAt[c] = "never"
        /\ fut[c] = "panicked"

\* C9: when pool.get() fails the closure is never invoked, and the call
\* returns Err just as a call whose closure returned an error does.
C9_GetFailureIsStoreError ==
    \A c \in callers :
        /\ conn[c] = "failed"
               => /\ closureRet[c] = "none"
                  /\ task[c] = "done"
                  /\ fut[c] \in {"awaiting", "abandoned", "returned_err"}
        /\ (closureRet[c] = "Err" /\ fut[c] \notin {"awaiting", "abandoned"})
               => fut[c] = "returned_err"

C9_Witness ==
    \E c, d \in callers :
        /\ conn[c] = "failed"
        /\ fut[c] = "returned_err"
        /\ closureRet[d] = "Err"
        /\ fut[d] = "returned_err"

\* C19: a leader executes FDW configuration, migration and mapping in that
\* order, each only after the previous one returned Ok; a non-leader
\* executes none of them.
LeaderOrder == <<"fdw", "migrate", "map">>

C19_StepsInOrder ==
    \A c \in callers :
        /\ Len(steps[c]) <= 3
        /\ steps[c] = SubSeq(LeaderOrder, 1, Len(steps[c]))
        /\ migrate[c] # "true" => steps[c] = <<>>
        /\ failed[c] = "fdw" => steps[c] = <<"fdw">>
        /\ (failed[c] = "migrate" /\ result[c] = "Err")
               => steps[c] = <<"fdw", "migrate">>

C19_Witness ==
    \E c, d \in callers :
        /\ sp[c] = "done"
        /\ failed[c] = "migrate"
        /\ result[c] = "Err"
        /\ steps[c] = <<"fdw", "migrate">>
        /\ sp[d] = "done"
        /\ migrate[d] = "false"

\* C10: a setup closure whose cancel handle is signalled after try-lock(1)
\* keeps running until both unlocks are evaluated; it never ends with a
\* cancellation and never ends holding a lock.
C10_SetupNotCutShort ==
    \A c \in callers :
        /\ closureRet[c] # "Cancel"
        /\ cancelAt[c] = "locked"
               => \/ task[c] = "closure"
                  \/ /\ task[c] = "done"
                     /\ sp[c] = "done"
                     /\ closureRet[c] \in {"Ok", "Panic"}
                     /\ HoldsNoLock(c)

C10_Witness ==
    \E c \in callers :
        /\ cancelAt[c] = "locked"
        /\ migrate[c] = "true"
        /\ failed[c] = "none"
        /\ sp[c] = "done"
        /\ closureRet[c] = "Ok"

Lacking(url) == url.parses /\ url.has # Parts /\ url # NoReplica

NoSetupStarted == \A s \in Shards : setupOf[s] = "pending"

\* C17 as stated: whenever some connection string of the configuration,
\* main or replica, lacks a part, no setup is started on any shard.
C17_AnyLackingUrlIsFatal ==
    (\E s \in Shards : Lacking(urls[s]) \/ Lacking(replicaUrls[s]))
        => /\ NoSetupStarted
           /\ builder \in {"pools", "details", "panicked"}

\* C17, amended: whenever the main connection string of some shard lacks a
\* part, StoreBuilder::new gets no further than collecting the connection
\* details and no setup is started on any shard.
C17_LackingMainUrlIsFatal ==
    (\E s \in Shards : Lacking(urls[s]))
        => /\ NoSetupStarted
           /\ builder \in {"pools", "details", "panicked"}
           /\ abortedAt \in {"none", "pools", "details"}

C17_Witness ==
    /\ \E s \in Shards : Lacking(urls[s])
    /\ \A s \in Shards : urls[s].parses
    /\ builder = "panicked"
    /\ abortedAt = "details"
    /\ NoSetupStarted

\* C15: replica_pools returns one pool per replica, the i-th with role
\* replica<i> and made for the i-th replica of the iteration order, and the
\* weights [shard.weight, R1.weight, ..., Rk.weight].
C15_ReplicaPoolsAndWeights ==
    rpc = "returned" =>
        /\ Len(replPools) = Len(replicas)
        /\ Len(weights) = Len(replicas) + 1
        /\ weights[1] = shardWeight
        /\ \A i \in 1..Len(replicas) :
               /\ replPools[i].role = <<"replica", i>>
               /\ replPools[i].replica = i
               /\ weights[i + 1] = replicas[replPools[i].replica]

C15_Witness ==
    /\ rpc = "returned"
    /\ Len(replicas) = 2
    /\ replicas[1] # replicas[2]
    /\ shardWeight # replicas[1]
    /\ weights = <<shardWeight, replicas[1], replicas[2]>>

\* C16: network_store yields one triple per input network, in order, with
\* the shard the configuration assigns to the name, or the primary shard
\* when the configuration has no entry for the name.
C16_NetworksResolved ==
    npc = "returned" =>
        /\ Len(triples) = Len(networks)
        /\ \A i \in 1..Len(networks) :
               /\ triples[i][1] = networks[i][1]
               /\ triples[i][2] = networks[i][2]
               /\ triples[i][3] =
                      IF networks[i][1] \in DOMAIN configChains
                      THEN configChains[networks[i][1]]
                      ELSE PRIMARY_SHARD

C16_Witness ==
    /\ npc = "returned"
    /\ Len(networks) = 2
    /\ networks[1][1] \in DOMAIN configChains
    /\ triples[1][3] # PRIMARY_SHARD
    /\ networks[2][1] \notin DOMAIN configChains
    /\ triples[2][3] = PRIMARY_SHARD

\* C18: get_with_timeout_warning returns only Ok with the connection of a
\* successful attempt, never an error; a failed attempt leads to another
\* turn of the loop, and a successful attempt leads to the return of its
\* connection.
C18_RetriesUntilConnection ==
    /\ [](\A g \in Getters :
             /\ gret[g] # "Err"
             /\ gpc[g] \in {"returned", "dropped"}
                    => gret[g] = "Ok" /\ attempt[g] = "conn")
    /\ \A g \in Getters : (gpc[g] = "matched_err") ~> (gpc[g] = "loop")
    /\ \A g \in Getters :
           (gpc[g] = "matched_ok") ~> (gpc[g] = "returned" /\ gret[g] = "Ok")

C18_Witness ==
    \E g \in Getters :
        /\ retried[g]
        /\ gpc[g] = "returned"
        /\ gret[g] = "Ok"
        /\ attempt[g] = "conn"

\* C12: configure_fdw on the database of shard S tries `create` on the
\* servers of the other shards that are not registered and `update` on
\* those that are, never anything on the server of S itself; when it
\* commits it has handled every other shard, and when it fails it leaves
\* the registered servers as they were.
C12_FdwHandlesOthers ==
    /\ [](/\ ForeignServer_name(ldb) \notin DOMAIN ops
          /\ ForeignServer_name(ldb) \notin registered
          /\ lp = "fdw_tx" =>
                 \A n \in DOMAIN ops :
                     ops[n] = IF n \in registered THEN "update" ELSE "create"
          /\ lp = "migrate" =>
                 /\ DOMAIN ops = OtherNames(ldb)
                 /\ registered = OtherNames(ldb))
    /\ [][(lp = "fdw_tx" /\ lp' = "unlock1") => registered' = registered]_vars

C12_Witness ==
    /\ lpass = 2
    /\ okFdw = 1
    /\ lp = "migrate"
    /\ DOMAIN ops = OtherNames(ldb)
    /\ \E n \in DOMAIN ops : ops[n] = "create"

\* C13: a server is created at most once; once a configure_fdw has
\* committed, the registered names are those of the other shards whatever
\* the number of passes, and a later pass tries nothing but `update`.
C13_FdwIdempotent ==
    /\ \A n \in DOMAIN creates : creates[n] <= 1
    /\ okFdw >= 1 => registered = OtherNames(ldb)
    /\ later => \A n \in DOMAIN ops : ops[n] = "update"

C13_Witness ==
    /\ okFdw = 2
    /\ later
    /\ lp = "migrate"
    /\ \E n \in DOMAIN creates : creates[n] = 1
    /\ \A n \in DOMAIN ops : ops[n] = "update"

\* the relations primary_public holds
MappedNames == {o[2] : o \in mapped}

\* C14 as stated: once map_primary has succeeded twice on the database,
\* primary_public holds exactly deployment_schemas and chains.
C14_TwoMapsLeaveBothRelations ==
    mapsOk >= 2 => MappedNames = MappedTables

\* C20: after a migration run that succeeded, with or without output, the
\* pass executes map_primary; a map_primary that succeeded has dropped
\* what primary_public held and made its relations anew.
C20_RemapAfterAnyMigration ==
    /\ (migrationRun[1] = "Ok" /\ lp # "map") => remapped # "no"
    /\ remapped = "done" =>
           /\ mapped = map_primary_objects(ldb, MappedNames)
           /\ Stale \notin mapped
           /\ mapped # NoSchema

C20_Witness ==
    /\ migrationRun = <<"Ok", FALSE>>
    /\ remapped = "done"
    /\ lp = "unlock1"
    /\ lpass = 1
    /\ Stale \notin mapped

\* C21 as stated: the statistics are reset whenever the migration run
\* printed output and never when it printed none.
C21_ResetIffOutput ==
    migrationRun[1] # "none" => (statsReset # "no") = migrationRun[2]

\* C21, amended: the statistics are reset exactly when the run printed
\* output and did not fail; a reset that failed leaves migrate_schema
\* returning Ok, so the pass goes on to map_primary.
C21_ResetIffOutputAndOk ==
    /\ migrationRun[1] # "none" =>
           (statsReset # "no") = (migrationRun[2] /\ migrationRun[1] = "Ok")
    /\ migrationRun[1] = "none" => statsReset = "no"
    /\ statsReset = "failed" => (lp = "map" \/ remapped # "no")

C21_Witness ==
    /\ statsReset = "failed"
    /\ migrationRun = <<"Ok", TRUE>>
    /\ remapped = "done"
    /\ lresult = "Ok"

\* C22: a task that finds its handle signalled at its start ends without a
\* connection; a task that finds it signalled once it has its connection
\* gives the connection back and ends without invoking the closure; the
\* closure starts only from a task that holds its connection and has just
\* found the handle unsignalled.
C22_CancelCheckedAroundCheckout ==
    [][\A c \in callers :
          /\ (task[c] = "spawned" /\ task'[c] # "spawned" /\ cancelled[c]) =>
                 /\ task'[c] = "done"
                 /\ taskResult'[c] = "Cancel"
                 /\ conn'[c] = "none"
                 /\ idle' = idle
                 /\ closureRet'[c] = "none"
          /\ (task[c] = "have_conn" /\ task'[c] # "have_conn" /\ cancelled[c]) =>
                 /\ task'[c] = "done"
                 /\ taskResult'[c] = "Cancel"
                 /\ conn'[c] = "returned"
                 /\ idle'[poolOf[c]] = idle[poolOf[c]] + 1
                 /\ closureRet'[c] = "none"
          /\ (task[c] # "closure" /\ task'[c] = "closure") =>
                 /\ task[c] = "have_conn"
                 /\ conn[c] = "held"
                 /\ ~cancelled[c]]_vars

C22_Witness ==
    \E c, d \in callers :
        /\ task[c] = "done"
        /\ taskResult[c] = "Cancel"
        /\ conn[c] = "returned"
        /\ closureRet[c] = "none"
        /\ task[d] = "done"
        /\ taskResult[d] = "Cancel"
        /\ conn[d] = "none"

\* the calls on pool q that hold a permit: their future is past acquire()
\* and neither finished nor dropped
PermitHolders(q) == {c \in callers : poolOf[c] = q /\ fut[c] = "awaiting"}

\* C23: on every pool the permits available and the permits held add up to
\* pool_size, each call between acquire() and its end holding one; once
\* every call has ended, in whatever way, all permits are available.
C23_PermitsConserved ==
    \A q \in DOMAIN permits :
        /\ permits[q] + Cardinality(PermitHolders(q)) = pool_size
        /\ permits[q] >= 0
        /\ (\A c \in callers : poolOf[c] = q => fut[c] \notin {"new", "awaiting"})
               => permits[q] = pool_size

C23_Witness ==
    /\ \A c \in callers : fut[c] \notin {"new", "awaiting"}
    /\ \E c \in callers : fut[c] = "abandoned" /\ task[c] = "closure"
    /\ \E c \in callers : fut[c] = "panicked" /\ taskResult[c] = "Cancel"
    /\ \E c \in callers : fut[c] = "returned_err"
    /\ \A q \in DOMAIN permits : permits[q] = pool_size

\* C24 as stated: whatever the pool size, a leader that is about to call
\* configure_fdw or map_primary finds a connection left in its pool beside
\* the one that holds the advisory locks.
C24_SecondConnectionAvailable ==
    \A c \in callers :
        (InClosure(c, "fdw") \/ InClosure(c, "map")) => idle[poolOf[c]] >= 1

\* C25: with pools of at least two connections, database operations that
\* succeed and fair scheduling, a call that waits for lock 2 gets past it
\* and every setup call returns.
C25_EverySetupReturns ==
    /\ \A c \in 1..MaxProcs : InClosure(c, "lock2") ~> ~InClosure(c, "lock2")
    /\ \A c \in 1..MaxProcs : <>(fut[c] = "returned_ok")

C25_Witness ==
    /\ \A c \in callers : fut[c] = "returned_ok" /\ HoldsNoLock(c)
    /\ \E c, d \in callers :
           /\ shardOf[c] = shardOf[d]
           /\ migrate[c] = "true"
           /\ migrate[d] = "false"
           /\ sawLeader[d] = c

\* C26 as stated: once a pass on a non-primary shard has returned Ok and
\* the primary has been migrated, the shard's primary_public holds both
\* relations, the import having waited for the primary's migration.
C26_ImportAfterPrimaryMigration ==
    (/\ ldb # PRIMARY_SHARD
     /\ lp = "idle"
     /\ lpass >= 1
     /\ lresult = "Ok"
     /\ primaryPublic = MappedTables)
        => MappedNames = MappedTables

====
